---- MODULE Spec2Model ----
(***************************************************************************)
(* Model of vs/editor/common/languages/supports/indentationLineProcessor.ts *)
(*                                                                         *)
(* Strings are sequences of one-character strings, offsets are 0-based as  *)
(* in the source, token indices are 0-based as in the source.  A line is   *)
(* the token sequence the tokenizer holds for it: a non-empty sequence of  *)
(* tokens [text, type, languageId]; the empty line is one token of empty   *)
(* text.                                                                   *)
(***************************************************************************)
EXTENDS Integers, Sequences, FiniteSets, TLC

VARIABLES doc, op, ret, calls, slices, evaluated

vars == <<doc, op, ret, calls, slices, evaluated>>

(***************************************************************************)
(* Bounds of the explored inputs.                                          *)
(***************************************************************************)
MaxLineLen == 3
MaxTokens == 2
MaxTokLen == 4
MaxLines == 2

(***************************************************************************)
(* Generic helpers.                                                        *)
(***************************************************************************)
Min(a, b) == IF a <= b THEN a ELSE b

Max(a, b) == IF a >= b THEN a ELSE b

Clamp(x, n) == IF x < 0 THEN 0 ELSE IF x > n THEN n ELSE x

\* String.prototype.substring(a, b): both indices clamped to [0, length],
\* swapped when a > b.
Substring(s, a, b) ==
  LET a1 == Clamp(a, Len(s))
      b1 == Clamp(b, Len(s))
  IN SubSeq(s, Min(a1, b1) + 1, Max(a1, b1))

\* String.prototype.substring(a): to the end of the string.
SubstringFrom(s, a) == Substring(s, a, Len(s))

RECURSIVE Concat(_)
Concat(ss) == IF ss = <<>> THEN <<>> ELSE Head(ss) \o Concat(Tail(ss))

\* All sequences over S of length exactly n / at most n.
RECURSIVE SeqsOfLen(_, _)
SeqsOfLen(S, n) ==
  IF n <= 0 THEN {<<>>}
  ELSE {<<x>> \o s : x \in S, s \in SeqsOfLen(S, n - 1)}

SeqsUpTo(S, n) == UNION {SeqsOfLen(S, k) : k \in 0..n}

\* s occurs in t at 0-based offset i.
OccursAt(s, t, i) ==
  /\ i >= 0
  /\ i + Len(s) <= Len(t)
  /\ SubSeq(t, i + 1, i + Len(s)) = s

Contains(t, s) == \E i \in 0..Len(t) : OccursAt(s, t, i)

(***************************************************************************)
(* StandardTokenType and the language configuration registry.              *)
(***************************************************************************)
Other == "Other"
Comment == "Comment"
String == "String"
RegEx == "RegEx"

StandardTokenType == {Other, Comment, String, RegEx}

\* Languages of the explored documents: "plain" has no configured brackets,
\* "paren" has the pair ( ), "pascal" has the two-character pair (* *).
LanguageIds == {"plain", "paren", "pascal"}

NoBrackets == [configured |-> FALSE, brackets |-> <<>>]

\* getLanguageConfiguration(languageId).brackets: absent, or a list of
\* bracket pairs, each listing its open and its close strings.
LanguageBrackets(languageId) ==
  CASE languageId = "paren" ->
         [configured |-> TRUE,
          brackets |-> << [open |-> << <<"(">> >>, close |-> << <<")">> >>] >>]
    [] languageId = "pascal" ->
         [configured |-> TRUE,
          brackets |-> << [open |-> << <<"(", "*">> >>,
                           close |-> << <<"*", ")">> >>] >>]
    [] OTHER -> NoBrackets

(***************************************************************************)
(* LineTokens.                                                             *)
(***************************************************************************)
Token(text, type, languageId) ==
  [text |-> text, type |-> type, languageId |-> languageId]

getCount(tokens) == Len(tokens)

getTokenText(tokens, tokenIndex) == tokens[tokenIndex + 1].text

getStandardTokenType(tokens, tokenIndex) == tokens[tokenIndex + 1].type

getLanguageId(tokens, tokenIndex) == tokens[tokenIndex + 1].languageId

getLineContent(tokens) ==
  Concat([i \in 1..Len(tokens) |-> tokens[i].text])

getStartOffset(tokens, tokenIndex) ==
  Len(Concat([i \in 1..tokenIndex |-> tokens[i].text]))

getEndOffset(tokens, tokenIndex) ==
  Len(Concat([i \in 1..(tokenIndex + 1) |-> tokens[i].text]))

\* The index of the token that holds the offset: the first token that ends
\* after the offset, the last token when the offset is at or past the end.
findTokenIndexAtOffset(tokens, offset) ==
  LET after == {i \in 0..(getCount(tokens) - 1) : getEndOffset(tokens, i) > offset}
  IN IF after = {} THEN getCount(tokens) - 1
     ELSE CHOOSE i \in after : \A j \in after : i <= j

\* What getProcessedLineForTokens reads of an IViewLineTokens: the language
\* of token 0, the line content, and the tokens forEach visits.
LineView(tokens) ==
  [languageId0 |-> getLanguageId(tokens, 0),
   lineContent |-> getLineContent(tokens),
   tokens |-> tokens]

\* LineTokens.sliceAndInflate(startOffset, endOffset, 0): the tokens from the
\* one holding startOffset up to the last one starting before endOffset, the
\* first and the last trimmed to the slice.
sliceAndInflate(tokens, startOffset, endOffset) ==
  LET firstTokenIndex == findTokenIndexAtOffset(tokens, startOffset)
      inSlice == {i \in firstTokenIndex..(getCount(tokens) - 1) :
                    \A j \in firstTokenIndex..i : getStartOffset(tokens, j) < endOffset}
      tokensCount == Cardinality(inSlice)
      sliceText(tokenIndex) ==
        LET adjusted == firstTokenIndex + tokenIndex
            tokenStartOffset == getStartOffset(tokens, adjusted)
            tokenEndOffset == getEndOffset(tokens, adjusted)
            text == getTokenText(tokens, adjusted)
            text1 == IF tokenStartOffset < startOffset
                     THEN SubstringFrom(text, startOffset - tokenStartOffset)
                     ELSE text
            text2 == IF tokenEndOffset > endOffset
                     THEN Substring(text1, 0, Len(text1) - (tokenEndOffset - endOffset))
                     ELSE text1
        IN text2
  IN [languageId0 |-> getLanguageId(tokens, firstTokenIndex),
      lineContent |-> Substring(getLineContent(tokens), startOffset, endOffset),
      tokens |-> [k \in 1..tokensCount |->
                    Token(sliceText(k - 1),
                          getStandardTokenType(tokens, firstTokenIndex + k - 1),
                          getLanguageId(tokens, firstTokenIndex + k - 1))]]

(***************************************************************************)
(* IndentationLineProcessor.getProcessedLineForTokens                      *)
(***************************************************************************)
RegexMetaCharacters ==
  {".", "*", "+", "?", "^", "$", "{", "}", "(", ")", "|", "[", "]", "\\"}

escapeCharacterForRegex(character) ==
  IF character \in RegexMetaCharacters THEN <<"\\", character>> ELSE <<character>>

escapeStringForRegex(text) ==
  Concat([i \in 1..Len(text) |-> escapeCharacterForRegex(text[i])])

\* new RegExp(source): the atoms of a pattern without groups or quantifiers.
\* An escaped character is that character taken literally; an unescaped "."
\* matches any character; any other unescaped metacharacter is no literal.
RECURSIVE RegExpAtoms(_)
RegExpAtoms(source) ==
  IF source = <<>> THEN <<>>
  ELSE IF Head(source) = "\\" /\ Len(source) >= 2
       THEN <<[kind |-> "literal", chr |-> source[2]]>> \o RegExpAtoms(Tail(Tail(source)))
       ELSE IF Head(source) = "."
            THEN <<[kind |-> "any", chr |-> "."]>> \o RegExpAtoms(Tail(source))
            ELSE IF Head(source) \in RegexMetaCharacters
                 THEN <<[kind |-> "syntax", chr |-> Head(source)]>> \o RegExpAtoms(Tail(source))
                 ELSE <<[kind |-> "literal", chr |-> Head(source)]>> \o RegExpAtoms(Tail(source))

AtomsMatchAt(atoms, text, i) ==
  /\ i + Len(atoms) <= Len(text)
  /\ \A k \in 1..Len(atoms) :
       \/ atoms[k].kind = "any"
       \/ atoms[k].kind = "literal" /\ atoms[k].chr = text[i + k]

\* text.replace(regex, '') with the g flag: every leftmost non-overlapping
\* match is dropped, in one left-to-right scan.
RECURSIVE ReplaceFrom(_, _, _)
ReplaceFrom(atoms, text, i) ==
  IF i >= Len(text) THEN <<>>
  ELSE IF atoms # <<>> /\ AtomsMatchAt(atoms, text, i)
       THEN ReplaceFrom(atoms, text, i + Len(atoms))
       ELSE <<text[i + 1]>> \o ReplaceFrom(atoms, text, i + 1)

replaceAll(text, source) == ReplaceFrom(RegExpAtoms(source), text, 0)

\* brackets.brackets.map(b => b.open).flat() and the same for close.
openBracketsOf(brackets) ==
  Concat([i \in 1..Len(brackets.brackets) |-> brackets.brackets[i].open])

closedBracketsOf(brackets) ==
  Concat([i \in 1..Len(brackets.brackets) |-> brackets.brackets[i].close])

\* A classifier that lets every token type through.
isTokenTypeToProcessAny(tokenType) == tokenType \in StandardTokenType

isTokenTypeToProcess(tokenType) ==
  \/ tokenType = String
  \/ tokenType = RegEx
  \/ tokenType = Comment

\* One forEach over a bracket list: each bracket is removed from the text the
\* previous one left.
RECURSIVE removeEach(_, _)
removeEach(processedLine, bracketList) ==
  IF bracketList = <<>> THEN processedLine
  ELSE removeEach(replaceAll(processedLine, escapeStringForRegex(Head(bracketList))),
                  Tail(bracketList))

removeBracketsFromText(line, openBrackets, closedBrackets) ==
  removeEach(removeEach(line, openBrackets), closedBrackets)

\* The body of tokens.forEach: what one token adds to processedLine.
processToken(token, openBrackets, closedBrackets) ==
  IF isTokenTypeToProcess(token.type)
  THEN removeBracketsFromText(token.text, openBrackets, closedBrackets)
  ELSE token.text

\* A sanitizer that looks the brackets up per token instead of once, from
\* token 0.
getProcessedLineForTokensPerToken(view) ==
  Concat([i \in 1..Len(view.tokens) |->
            LET brackets == LanguageBrackets(view.tokens[i].languageId)
            IN IF ~brackets.configured
               THEN view.tokens[i].text
               ELSE processToken(view.tokens[i], openBracketsOf(brackets),
                                 closedBracketsOf(brackets))])

getProcessedLineForTokens(view) ==
  LET languageId == view.languageId0
      brackets == LanguageBrackets(languageId)
      openBrackets == openBracketsOf(brackets)
      closedBrackets == closedBracketsOf(brackets)
  IN IF ~brackets.configured
     THEN view.lineContent
     ELSE Concat([i \in 1..Len(view.tokens) |->
                    processToken(view.tokens[i], openBrackets, closedBrackets)])

(***************************************************************************)
(* IndentationLineProcessor.getProcessedLine                               *)
(***************************************************************************)
Whitespace == {" ", "\t"}

\* strings.getLeadingWhitespace: the maximal prefix of spaces and tabs.
RECURSIVE getLeadingWhitespace(_)
getLeadingWhitespace(str) ==
  IF str # <<>> /\ Head(str) \in Whitespace
  THEN <<Head(str)>> \o getLeadingWhitespace(Tail(str))
  ELSE <<>>

adjustIndentation(line, newIndentation) ==
  LET currentIndentation == getLeadingWhitespace(line)
  IN newIndentation \o SubstringFrom(line, Len(currentIndentation))

\* An optional argument: undefined, or a string.
Undefined == [defined |-> FALSE, value |-> <<>>]

Defined(value) == [defined |-> TRUE, value |-> value]

\* model.tokenization.getLineTokens(lineNumber)
getLineTokens(d, lineNumber) == d[lineNumber]

\* model.getLineMaxColumn(lineNumber)
getLineMaxColumn(d, lineNumber) == Len(getLineContent(d[lineNumber])) + 1

\* A line processor that measures the indentation to replace on the raw
\* line.
getProcessedLineRawIndentation(d, lineNumber, newIndentation) ==
  LET tokens == getLineTokens(d, lineNumber)
      processedLine == getProcessedLineForTokens(LineView(tokens))
      rawIndentation == getLeadingWhitespace(getLineContent(tokens))
  IN IF newIndentation.defined
     THEN newIndentation.value \o SubstringFrom(processedLine, Len(rawIndentation))
     ELSE processedLine

getProcessedLine(d, lineNumber, newIndentation) ==
  LET tokens == getLineTokens(d, lineNumber)
      processedLine == getProcessedLineForTokens(LineView(tokens))
  IN IF newIndentation.defined
     THEN adjustIndentation(processedLine, newIndentation.value)
     ELSE processedLine

(***************************************************************************)
(* createScopedLineTokens and ScopedLineTokens                             *)
(***************************************************************************)
\* The maximal run of tokens around the token at the offset that carry that
\* token's language.
createScopedLineTokens(context, offset) ==
  LET tokenCount == getCount(context)
      tokenIndex == findTokenIndexAtOffset(context, offset)
      desiredLanguageId == getLanguageId(context, tokenIndex)
      lastTokenIndex ==
        CHOOSE l \in tokenIndex..(tokenCount - 1) :
          /\ \A j \in tokenIndex..l : getLanguageId(context, j) = desiredLanguageId
          /\ l + 1 < tokenCount => getLanguageId(context, l + 1) # desiredLanguageId
      firstTokenIndex ==
        CHOOSE f \in 0..tokenIndex :
          /\ \A j \in f..tokenIndex : getLanguageId(context, j) = desiredLanguageId
          /\ f > 0 => getLanguageId(context, f - 1) # desiredLanguageId
  IN [languageId |-> desiredLanguageId,
      firstCharOffset |-> getStartOffset(context, firstTokenIndex),
      lastCharOffset |-> getEndOffset(context, lastTokenIndex),
      lineContent |-> Substring(getLineContent(context),
                                getStartOffset(context, firstTokenIndex),
                                getEndOffset(context, lastTokenIndex))]

doesScopeStartAtOffsetZero(scopedLineTokens) == scopedLineTokens.firstCharOffset = 0

(***************************************************************************)
(* IndentationContextProcessor                                             *)
(***************************************************************************)
Range(startLineNumber, startColumn, endLineNumber, endColumn) ==
  [startLineNumber |-> startLineNumber, startColumn |-> startColumn,
   endLineNumber |-> endLineNumber, endColumn |-> endColumn]

isEmpty(range) ==
  /\ range.startLineNumber = range.endLineNumber
  /\ range.startColumn = range.endColumn

\* Entries of the log of tokenizer calls and of the log of slice requests.
ForceTokenization(lineNumber) == [fn |-> "forceTokenization", lineNumber |-> lineNumber]

GetLineTokens(lineNumber) == [fn |-> "getLineTokens", lineNumber |-> lineNumber]

Slice(fragment, lineNumber, first, last) ==
  [fragment |-> fragment, lineNumber |-> lineNumber, first |-> first, last |-> last]

\* Each step yields its text, the tokenizer calls it made and the slices it
\* requested.
\* A before-range step that slices from the start of the line instead of
\* the start of the scope.
getProcessedTextBeforeRangeFromLineStart(d, range, scopedLineTokens) ==
  LET lineTokens == getLineTokens(d, range.startLineNumber)
      lastCharacterOffset == range.startColumn - 1
  IN [text |-> getProcessedLineForTokens(sliceAndInflate(lineTokens, 0, lastCharacterOffset)),
      calls |-> <<GetLineTokens(range.startLineNumber)>>,
      slices |-> <<Slice("before", range.startLineNumber, 0, lastCharacterOffset)>>]

getProcessedTextBeforeRange(d, range, scopedLineTokens) ==
  LET lineTokens == getLineTokens(d, range.startLineNumber)
      columnIndexWithinScope == (range.startColumn - 1) - scopedLineTokens.firstCharOffset
      firstCharacterOffset == scopedLineTokens.firstCharOffset
      lastCharacterOffset == scopedLineTokens.firstCharOffset + columnIndexWithinScope
      slicedTokensBefore == sliceAndInflate(lineTokens, firstCharacterOffset, lastCharacterOffset)
  IN [text |-> getProcessedLineForTokens(slicedTokensBefore),
      calls |-> <<GetLineTokens(range.startLineNumber)>>,
      slices |-> <<Slice("before", range.startLineNumber,
                         firstCharacterOffset, lastCharacterOffset)>>]

getProcessedTextAfterRange(d, range, scopedLineTokens) ==
  LET columnIndexWithinScope ==
        IF isEmpty(range)
        THEN (range.startColumn - 1) - scopedLineTokens.firstCharOffset
        ELSE (range.endColumn - 1) - scopedLineTokens.firstCharOffset
      lineNumber ==
        IF isEmpty(range) THEN range.startLineNumber ELSE range.endLineNumber
      lineTokens == getLineTokens(d, lineNumber)
      scopedLineContent == scopedLineTokens.lineContent
      firstCharacterOffset == scopedLineTokens.firstCharOffset + columnIndexWithinScope
      lastCharacterOffset == scopedLineTokens.firstCharOffset + Len(scopedLineContent)
      slicedTokensAfter == sliceAndInflate(lineTokens, firstCharacterOffset, lastCharacterOffset)
  IN [text |-> getProcessedLineForTokens(slicedTokensAfter),
      calls |-> <<GetLineTokens(lineNumber)>>,
      slices |-> <<Slice("after", lineNumber, firstCharacterOffset, lastCharacterOffset)>>]

getScopedLineTokensAtEndColumnOfLine(d, lineNumber) ==
  LET lineTokens == getLineTokens(d, lineNumber)
      endColumnOfLine == getLineMaxColumn(d, lineNumber) - 1
  IN createScopedLineTokens(lineTokens, endColumnOfLine)

getSlicedLineTokensForScopeAtLine(d, scopedLineTokens, lineNumber) ==
  LET initialLine == getLineTokens(d, lineNumber)
      scopedLine == scopedLineTokens.lineContent
      firstCharacterOffset == scopedLineTokens.firstCharOffset
      lastCharacterOffset == firstCharacterOffset + Len(scopedLine)
  IN [view |-> sliceAndInflate(initialLine, firstCharacterOffset, lastCharacterOffset),
      slice |-> Slice("previousLine", lineNumber, firstCharacterOffset, lastCharacterOffset)]

\* A previous-line step that does not ask whether the scope starts at
\* offset zero.
getProcessedPreviousLineAnyScopeStart(d, range, scopedLineTokens) ==
  LET previousLineNumber == range.startLineNumber - 1
      scopedLineTokensAtEndColumnOfPreviousLine ==
        getScopedLineTokensAtEndColumnOfLine(d, previousLineNumber)
      previousSliced ==
        getSlicedLineTokensForScopeAtLine(d, scopedLineTokensAtEndColumnOfPreviousLine,
                                          previousLineNumber)
      scopeCalls == <<ForceTokenization(previousLineNumber), GetLineTokens(previousLineNumber)>>
  IN IF previousLineNumber = 0
     THEN [text |-> <<>>, calls |-> <<>>, slices |-> <<>>]
     ELSE IF scopedLineTokens.languageId # scopedLineTokensAtEndColumnOfPreviousLine.languageId
     THEN [text |-> <<>>, calls |-> scopeCalls, slices |-> <<>>]
     ELSE [text |-> getProcessedLineForTokens(previousSliced.view),
           calls |-> scopeCalls \o <<GetLineTokens(previousLineNumber)>>,
           slices |-> <<previousSliced.slice>>]

getProcessedPreviousLine(d, range, scopedLineTokens) ==
  LET previousLineNumber == range.startLineNumber - 1
      isFirstLine == previousLineNumber = 0
      canScopeExtendOnPreviousLine == doesScopeStartAtOffsetZero(scopedLineTokens)
      scopedLineTokensAtEndColumnOfPreviousLine ==
        getScopedLineTokensAtEndColumnOfLine(d, previousLineNumber)
      doesLanguageContinueOnPreviousLine ==
        scopedLineTokens.languageId = scopedLineTokensAtEndColumnOfPreviousLine.languageId
      previousSliced ==
        getSlicedLineTokensForScopeAtLine(d, scopedLineTokensAtEndColumnOfPreviousLine,
                                          previousLineNumber)
      scopeCalls == <<ForceTokenization(previousLineNumber), GetLineTokens(previousLineNumber)>>
  IN IF isFirstLine
     THEN [text |-> <<>>, calls |-> <<>>, slices |-> <<>>]
     ELSE IF ~canScopeExtendOnPreviousLine
     THEN [text |-> <<>>, calls |-> <<>>, slices |-> <<>>]
     ELSE IF ~doesLanguageContinueOnPreviousLine
     THEN [text |-> <<>>, calls |-> scopeCalls, slices |-> <<>>]
     ELSE [text |-> getProcessedLineForTokens(previousSliced.view),
           calls |-> scopeCalls \o <<GetLineTokens(previousLineNumber)>>,
           slices |-> <<previousSliced.slice>>]

getProcessedContextAroundRange(d, range) ==
  LET lineTokens == getLineTokens(d, range.startLineNumber)
      scopedLineTokens == createScopedLineTokens(lineTokens, range.startColumn - 1)
      before == getProcessedTextBeforeRange(d, range, scopedLineTokens)
      after == getProcessedTextAfterRange(d, range, scopedLineTokens)
      previous == getProcessedPreviousLine(d, range, scopedLineTokens)
  IN [beforeRangeText |-> before.text,
      afterRangeText |-> after.text,
      previousLineText |-> previous.text,
      calls |-> <<ForceTokenization(range.startLineNumber),
                  GetLineTokens(range.startLineNumber)>>
                \o before.calls \o after.calls \o previous.calls,
      slices |-> before.slices \o after.slices \o previous.slices]

(***************************************************************************)
(* ProcessedIndentRulesSupport: each operation processes the line and asks *)
(* the IndentRulesSupport predicate of its name.  The rule evaluator is    *)
(* external: its answer is any boolean, and the model records which        *)
(* predicate was asked, with which text, and what it answered.             *)
(***************************************************************************)
Evaluation(predicate, text, result) ==
  [predicate |-> predicate, text |-> text, result |-> result]

(***************************************************************************)
(* Explored inputs.                                                        *)
(***************************************************************************)
\* Characters, types and languages of the sanitizer's token streams.
SanChars == {"(", ")", "*"}

SanLanguageIds == {"plain", "paren"}

\* Token streams for getProcessedLine: indented code with strings.
LineChars == {" ", "\t", "(", "a"}

LineTypes == {Other, String}

LineLanguageIds == {"plain", "paren"}

\* The token stream that cuts the text at the offsets in cuts and gives the
\* k-th token the type and language attrs[k].
RECURSIVE Ascending(_)
Ascending(S) ==
  IF S = {} THEN <<>>
  ELSE LET least == CHOOSE x \in S : \A y \in S : x <= y
       IN <<least>> \o Ascending(S \ {least})

MakeLine(text, cuts, attrs) ==
  LET ends == Ascending(cuts \cup {Len(text)})
      start(k) == IF k = 1 THEN 0 ELSE ends[k - 1]
  IN [k \in 1..Len(ends) |->
        Token(SubSeq(text, start(k) + 1, ends[k]), attrs[k][1], attrs[k][2])]

\* The ways to cut a text into at most count non-empty tokens.
Cuts(text, count) ==
  {cuts \in SUBSET (1..(Len(text) - 1)) : Cardinality(cuts) + 1 <= count}

\* doc is one line: a text of at most len characters cut into at most
\* count tokens, or the empty line (one token of empty text, as the
\* tokenizer gives it).
OneLineDocument(chars, types, languageIds, len, count) ==
  \/ \E text \in SeqsUpTo(chars, len) \ {<<>>} :
       \E cuts \in Cuts(text, count) :
         \E attrs \in [1..(Cardinality(cuts) + 1) -> types \X languageIds] :
           doc = <<MakeLine(text, cuts, attrs)>>
  \/ \E languageId \in languageIds : doc = <<MakeLine(<<>>, {}, <<<<Other, languageId>>>>)>>

\* Lines of documents that embed one language in another.
SampleLines ==
  { <<Token(<<>>, Other, "paren")>>,
    <<Token(<<" ", "a", "(">>, Other, "paren")>>,
    <<Token(<<"(", " ">>, String, "paren"), Token(<<"a", ")">>, Other, "paren")>>,
    <<Token(<<"a">>, Other, "plain"), Token(<<"(", "a">>, Comment, "paren")>>,
    <<Token(<<"(">>, RegEx, "paren"), Token(<<"a", "(">>, Other, "plain")>>,
    <<Token(<<"a", "(">>, Other, "plain")>>,
    <<Token(<<"\t">>, Other, "pascal"), Token(<<"(", "(", "*">>, Comment, "pascal")>>,
    <<Token(<<"(">>, Other, "paren"), Token(<<"a">>, Other, "plain"),
      Token(<<")", "a">>, String, "paren")>>,
    <<Token(<<"a">>, Other, "plain"), Token(<<"(", "a", ")">>, String, "paren"),
      Token(<<"a">>, Other, "plain")>> }

Documents == UNION {SeqsOfLen(SampleLines, n) : n \in 1..MaxLines}

Indentations == {Undefined, Defined(<<>>), Defined(<<" ">>), Defined(<<"\t">>)}

LineNumbers(d) == 1..Len(d)

\* The ranges of a document: start not after end, columns from 1 to the
\* line's maximal column.
Columns(d, lineNumber) == 1..getLineMaxColumn(d, lineNumber)

Ranges(d) ==
  UNION {{Range(sl, sc, el, ec) : sc \in Columns(d, sl), ec \in Columns(d, el)} :
           sl \in LineNumbers(d), el \in LineNumbers(d)}

ValidRange(d, range) ==
  \/ range.startLineNumber < range.endLineNumber
  \/ /\ range.startLineNumber = range.endLineNumber
     /\ range.startColumn <= range.endColumn

(***************************************************************************)
(* State.                                                                  *)
(***************************************************************************)
NoRange == Range(0, 0, 0, 0)

Operation(name, lineNumber, newIndentation, range) ==
  [name |-> name, lineNumber |-> lineNumber,
   newIndentation |-> newIndentation, range |-> range]

Result(text, before, after, previous, value) ==
  [text |-> text, beforeRangeText |-> before, afterRangeText |-> after,
   previousLineText |-> previous, value |-> value]

NoResult == Result(<<>>, <<>>, <<>>, <<>>, FALSE)

\* No call is in progress and nothing of an earlier call is kept.
Idle ==
  /\ op = Operation("idle", 0, Undefined, NoRange)
  /\ ret = NoResult
  /\ calls = <<>>
  /\ slices = <<>>
  /\ evaluated = <<>>

Ready == op.name = "idle"

Init == doc \in Documents /\ Idle

\* Token streams for the sanitizer: every cut of every text of up to
\* MaxLineLen characters into up to MaxTokens tokens of any type, and one
\* token of up to MaxTokLen characters in the language of the two-character
\* brackets, and the documents of several lines.
InitSan ==
  /\ \/ OneLineDocument(SanChars, StandardTokenType, SanLanguageIds, MaxLineLen, MaxTokens)
     \/ OneLineDocument(SanChars, StandardTokenType, {"pascal"}, MaxTokLen, 1)
     \/ doc \in Documents
  /\ Idle

\* Lines for getProcessedLine: every cut of every indented text of up to
\* MaxLineLen characters, and the documents of several lines.
InitLine ==
  /\ \/ OneLineDocument(LineChars, LineTypes, LineLanguageIds, MaxLineLen, MaxTokens)
     \/ doc \in Documents
  /\ Idle

(***************************************************************************)
(* Operations.                                                             *)
(***************************************************************************)
ProcessLineForTokens(lineNumber) ==
  /\ op' = Operation("getProcessedLineForTokens", lineNumber, Undefined, NoRange)
  /\ ret' = Result(getProcessedLineForTokens(LineView(getLineTokens(doc, lineNumber))),
                   <<>>, <<>>, <<>>, FALSE)
  /\ calls' = <<>>
  /\ slices' = <<>>
  /\ evaluated' = <<>>
  /\ UNCHANGED doc

ProcessLine(lineNumber, newIndentation) ==
  /\ op' = Operation("getProcessedLine", lineNumber, newIndentation, NoRange)
  /\ ret' = Result(getProcessedLine(doc, lineNumber, newIndentation),
                   <<>>, <<>>, <<>>, FALSE)
  /\ calls' = <<GetLineTokens(lineNumber)>>
  /\ slices' = <<>>
  /\ evaluated' = <<>>
  /\ UNCHANGED doc

ProcessContextAroundRange(range) ==
  LET context == getProcessedContextAroundRange(doc, range)
  IN /\ op' = Operation("getProcessedContextAroundRange", 0, Undefined, range)
     /\ ret' = Result(<<>>, context.beforeRangeText, context.afterRangeText,
                      context.previousLineText, FALSE)
     /\ calls' = context.calls
     /\ slices' = context.slices
     /\ evaluated' = <<>>
     /\ UNCHANGED doc

\* The shape the four operations share: process the line, ask one predicate
\* of the rule evaluator, return its answer.
Evaluate(name, predicate, text, lineNumber, newIndentation) ==
  \E answer \in BOOLEAN :
    /\ op' = Operation(name, lineNumber, newIndentation, NoRange)
    /\ evaluated' = <<Evaluation(predicate, text, answer)>>
    /\ ret' = Result(<<>>, <<>>, <<>>, <<>>, answer)
    /\ calls' = <<GetLineTokens(lineNumber)>>
    /\ slices' = <<>>
    /\ UNCHANGED doc

shouldIncrease(lineNumber, newIndentation) ==
  LET processedLine == getProcessedLine(doc, lineNumber, newIndentation)
  IN Evaluate("shouldIncrease", "shouldIncrease", processedLine, lineNumber, newIndentation)

\* A facade operation that hands the evaluator the raw line.
shouldDecreaseRawLine(lineNumber, newIndentation) ==
  LET rawLine == getLineContent(getLineTokens(doc, lineNumber))
      line == IF newIndentation.defined
              THEN adjustIndentation(rawLine, newIndentation.value)
              ELSE rawLine
  IN Evaluate("shouldDecrease", "shouldDecrease", line, lineNumber, newIndentation)

shouldDecrease(lineNumber, newIndentation) ==
  LET processedLine == getProcessedLine(doc, lineNumber, newIndentation)
  IN Evaluate("shouldDecrease", "shouldDecrease", processedLine, lineNumber, newIndentation)

shouldIgnore(lineNumber, newIndentation) ==
  LET processedLine == getProcessedLine(doc, lineNumber, newIndentation)
  IN Evaluate("shouldIgnore", "shouldIgnore", processedLine, lineNumber, newIndentation)

shouldIndentNextLine(lineNumber, newIndentation) ==
  LET processedLine == getProcessedLine(doc, lineNumber, newIndentation)
  IN Evaluate("shouldIndentNextLine", "shouldIndentNextLine", processedLine,
              lineNumber, newIndentation)

\* The operations are synchronous calls of one caller: a call starts when
\* none is in progress, and the caller takes its result before the next.
Return ==
  /\ ~Ready
  /\ op' = Operation("idle", 0, Undefined, NoRange)
  /\ ret' = NoResult
  /\ calls' = <<>>
  /\ slices' = <<>>
  /\ evaluated' = <<>>
  /\ UNCHANGED doc

ContextStep ==
  /\ Ready
  /\ \E range \in Ranges(doc) : ValidRange(doc, range) /\ ProcessContextAroundRange(range)

LineStep ==
  /\ Ready
  /\ \E lineNumber \in LineNumbers(doc), newIndentation \in Indentations :
       ProcessLine(lineNumber, newIndentation)

IncreaseStep ==
  /\ Ready
  /\ \E lineNumber \in LineNumbers(doc), newIndentation \in Indentations :
       shouldIncrease(lineNumber, newIndentation)

DecreaseStep ==
  /\ Ready
  /\ \E lineNumber \in LineNumbers(doc), newIndentation \in Indentations :
       shouldDecrease(lineNumber, newIndentation)

IgnoreStep ==
  /\ Ready
  /\ \E lineNumber \in LineNumbers(doc), newIndentation \in Indentations :
       shouldIgnore(lineNumber, newIndentation)

IndentNextLineStep ==
  /\ Ready
  /\ \E lineNumber \in LineNumbers(doc), newIndentation \in Indentations :
       shouldIndentNextLine(lineNumber, newIndentation)

SanStep ==
  /\ Ready
  /\ \E lineNumber \in LineNumbers(doc) : ProcessLineForTokens(lineNumber)

Next ==
  \/ ContextStep
  \/ LineStep
  \/ IncreaseStep
  \/ DecreaseStep
  \/ IgnoreStep
  \/ IndentNextLineStep
  \/ Return

NextSan == SanStep \/ Return

NextLine == LineStep \/ Return

Spec == Init /\ [][Next]_vars

SpecSan == InitSan /\ [][NextSan]_vars

SpecLine == InitLine /\ [][NextLine]_vars

(***************************************************************************)
(* What the properties compare the operations with: the sanitized text of  *)
(* a span of a line, stated on literal strings and character offsets.      *)
(***************************************************************************)
\* text without the leftmost non-overlapping occurrences of the string s.
RECURSIVE StripLiteral(_, _)
StripLiteral(text, s) ==
  IF text = <<>> THEN <<>>
  ELSE IF s # <<>> /\ OccursAt(s, text, 0)
       THEN StripLiteral(SubSeq(text, Len(s) + 1, Len(text)), s)
       ELSE <<Head(text)>> \o StripLiteral(Tail(text), s)

RECURSIVE StripEach(_, _)
StripEach(text, strings) ==
  IF strings = <<>> THEN text
  ELSE StripEach(StripLiteral(text, Head(strings)), Tail(strings))

BracketStrings(languageId) ==
  openBracketsOf(LanguageBrackets(languageId)) \o closedBracketsOf(LanguageBrackets(languageId))

IsLiteralLike(token) == token.type \in {String, Comment, RegEx}

ExpectedPiece(token, languageId) ==
  IF IsLiteralLike(token) THEN StripEach(token.text, BracketStrings(languageId))
  ELSE token.text

RawText(tokens) == Concat([i \in 1..Len(tokens) |-> tokens[i].text])

ExpectedSanitized(languageId, tokens) ==
  IF ~LanguageBrackets(languageId).configured THEN RawText(tokens)
  ELSE Concat([i \in 1..Len(tokens) |-> ExpectedPiece(tokens[i], languageId)])

\* The characters of a line with the token each belongs to.
RECURSIVE Owners(_, _)
Owners(tokens, k) ==
  IF k > Len(tokens) THEN <<>>
  ELSE [j \in 1..Len(tokens[k].text) |-> k] \o Owners(tokens, k + 1)

\* The tokens of a line cut down to the offsets first <= p < last.
Restrict(tokens, first, last) ==
  LET content == RawText(tokens)
      owner == Owners(tokens, 1)
      inside(k) == {p \in 0..(Len(content) - 1) : p >= first /\ p < last /\ owner[p + 1] = k}
      kept == Ascending({k \in 1..Len(tokens) : inside(k) # {}})
      cut(k) == LET ps == Ascending(inside(k)) IN [j \in 1..Len(ps) |-> content[ps[j] + 1]]
  IN [j \in 1..Len(kept) |->
        Token(cut(kept[j]), tokens[kept[j]].type, tokens[kept[j]].languageId)]

\* The sanitized text of the span [first, last) of a line: the brackets of
\* the language at offset first are removed from its literal-like tokens.
SanitizedSpan(tokens, first, last) ==
  LET restricted == Restrict(tokens, first, last)
  IN IF restricted = <<>> THEN <<>>
     ELSE ExpectedSanitized(restricted[1].languageId, restricted)

SanitizedLine(tokens) == ExpectedSanitized(tokens[1].languageId, tokens)

\* s without its maximal leading run of spaces and tabs.
WithoutLeadingWhitespace(s) ==
  LET runs == {k \in 0..Len(s) : \A j \in 1..k : s[j] \in {" ", "\t"}}
      run == CHOOSE k \in runs : \A m \in runs : m <= k
  IN SubSeq(s, run + 1, Len(s))

CalledLine == doc[op.lineNumber]

FirstLanguageConfigured(tokens) == LanguageBrackets(tokens[1].languageId).configured

(***************************************************************************)
(* Properties of getProcessedLineForTokens (SpecSan).                      *)
(***************************************************************************)
\* C1: when the language of the first token has configured brackets, the
\* sanitized line is the concatenation, in token order, of one piece per
\* token: the text itself for a token of type Other, the text without the
\* bracket strings for a String, Comment or RegEx token.
C1_OnlyLiteralTokensLoseBrackets ==
  (op.name = "getProcessedLineForTokens" /\ FirstLanguageConfigured(CalledLine))
    => ret.text = Concat([i \in 1..Len(CalledLine) |->
                            ExpectedPiece(CalledLine[i], CalledLine[1].languageId)])

\* A line with the same bracket in a String token and in an Other token: the
\* result keeps exactly the one of the Other token.
C1_Witness ==
  /\ op.name = "getProcessedLineForTokens"
  /\ CalledLine = <<Token(<<"(">>, String, "paren"), Token(<<"(", "*">>, Other, "paren")>>
  /\ ret.text = <<"(", "*">>

\* C2: when the language of the first token has no configured brackets, the
\* sanitized line is the raw line content, whatever the later tokens are.
C2_NoBracketsForFirstTokenIsPassThrough ==
  (op.name = "getProcessedLineForTokens" /\ ~FirstLanguageConfigured(CalledLine))
    => ret.text = RawText(CalledLine)

\* A first token of a language without brackets followed by a String token,
\* holding a bracket, of a language with brackets.
C2_Witness ==
  /\ op.name = "getProcessedLineForTokens"
  /\ CalledLine = <<Token(<<"*">>, Other, "plain"), Token(<<"(", ")">>, String, "paren")>>
  /\ ret.text = <<"*", "(", ")">>

\* C9: after sanitize, the text a String, Comment or RegEx token contributes
\* holds no occurrence of any configured open or close bracket string.
C9_NoBracketLeftInLiteralTokens ==
  (op.name = "getProcessedLineForTokens" /\ FirstLanguageConfigured(CalledLine))
    => \A i \in 1..Len(CalledLine) :
         IsLiteralLike(CalledLine[i])
           => LET brackets == LanguageBrackets(CalledLine[1].languageId)
                  contributed == processToken(CalledLine[i], openBracketsOf(brackets),
                                              closedBracketsOf(brackets))
              IN /\ Len(CalledLine) = 1 => contributed = ret.text
                 /\ \A b \in 1..Len(BracketStrings(CalledLine[1].languageId)) :
                      ~Contains(contributed, BracketStrings(CalledLine[1].languageId)[b])

(***************************************************************************)
(* Properties of getProcessedLine (SpecLine).                              *)
(***************************************************************************)
\* C3: with a replacement indentation r, the empty string included, the
\* processed line is r followed by the sanitized line without its leading
\* whitespace run, the run measured on the sanitized line; without one it is
\* the sanitized line.
C3_IndentationReplacedOnSanitizedLine ==
  op.name = "getProcessedLine"
    => ret.text = IF op.newIndentation.defined
                  THEN op.newIndentation.value
                         \o WithoutLeadingWhitespace(SanitizedLine(CalledLine))
                  ELSE SanitizedLine(CalledLine)

\* A line whose sanitized form starts with whitespace and whose raw form
\* does not, processed with the empty replacement.
C3_Witness ==
  /\ op.name = "getProcessedLine"
  /\ CalledLine = <<Token(<<"(", " ">>, String, "paren"), Token(<<"a">>, Other, "paren")>>
  /\ op.newIndentation = Defined(<<>>)
  /\ ret.text = <<"a">>

(***************************************************************************)
(* Properties of getProcessedContextAroundRange (Spec).                    *)
(***************************************************************************)
IsContext == op.name = "getProcessedContextAroundRange"

StartLine == doc[op.range.startLineNumber]

EndLine == doc[op.range.endLineNumber]

PreviousLine == doc[op.range.startLineNumber - 1]

\* The scope resolved at range.startColumn on the start line.
StartScope == createScopedLineTokens(StartLine, op.range.startColumn - 1)

\* The scope resolved at range.endColumn on the end line.
EndScope == createScopedLineTokens(EndLine, op.range.endColumn - 1)

\* The scope resolved at the last column of the previous line.
PreviousScope == createScopedLineTokens(PreviousLine, Len(RawText(PreviousLine)))

\* C4: for a non-collapsed range that ends on another line, the after
\* fragment is the sanitized text of the end line from range.endColumn to
\* the end of the scope on the end line; for a collapsed range it is the
\* sanitized text of the start line from the caret to the end of the scope.
C4_AfterFragmentOfTheEndLine ==
  IsContext =>
    /\ isEmpty(op.range)
         => ret.afterRangeText =
              SanitizedSpan(StartLine, op.range.startColumn - 1, StartScope.lastCharOffset)
    /\ op.range.endLineNumber # op.range.startLineNumber
         => ret.afterRangeText =
              SanitizedSpan(EndLine, op.range.endColumn - 1, EndScope.lastCharOffset)

\* C5: the previous-line fragment is empty when the range starts on line 1,
\* when the start scope does not start at offset 0, or when the scope at the
\* end of the previous line has another language; otherwise it is the
\* sanitized text of the previous line over that scope's span.
C5_PreviousLineFragment ==
  IsContext =>
    ret.previousLineText =
      IF op.range.startLineNumber = 1 THEN <<>>
      ELSE IF StartScope.firstCharOffset # 0 THEN <<>>
      ELSE IF PreviousScope.languageId # StartScope.languageId THEN <<>>
      ELSE SanitizedSpan(PreviousLine, PreviousScope.firstCharOffset,
                         PreviousScope.lastCharOffset)

\* The previous line ends in an embedded scope that follows text of another
\* language, and the start line continues that scope from offset 0.
C5_Witness ==
  /\ IsContext
  /\ op.range.startLineNumber = 2
  /\ PreviousLine = <<Token(<<"a">>, Other, "plain"), Token(<<"(", "a">>, Comment, "paren")>>
  /\ StartLine = <<Token(<<"(">>, RegEx, "paren"), Token(<<"a", "(">>, Other, "plain")>>
  /\ op.range.startColumn = 1
  /\ ret.previousLineText = <<"a">>

\* C6: the before fragment is the sanitized text of the start line from the
\* first character of the start scope up to, not including, the offset
\* range.startColumn - 1.
C6_BeforeFragment ==
  IsContext =>
    ret.beforeRangeText =
      SanitizedSpan(StartLine, StartScope.firstCharOffset, op.range.startColumn - 1)

\* The range starts inside an embedded scope that does not start the line.
C6_Witness ==
  /\ IsContext
  /\ StartLine = <<Token(<<"a">>, Other, "plain"), Token(<<"(", "a">>, Comment, "paren")>>
  /\ op.range.startColumn = 4
  /\ ~isEmpty(op.range)
  /\ ret.beforeRangeText = <<"a">>

\* C7: every slice [first, last) requested of a line's token stream lies in
\* the line: 0 <= first <= last <= length of the line.
C7_SlicesWithinTheLine ==
  IsContext =>
    \A i \in 1..Len(slices) :
      /\ 0 <= slices[i].first
      /\ slices[i].first <= slices[i].last
      /\ slices[i].last <= Len(RawText(doc[slices[i].lineNumber]))

\* C10: every line whose tokens are fetched was force-tokenized earlier in
\* the same call.
C10_ForcedBeforeFetched ==
  IsContext =>
    \A i \in 1..Len(calls) :
      calls[i].fn = "getLineTokens"
        => \E j \in 1..(i - 1) : calls[j] = ForceTokenization(calls[i].lineNumber)

(***************************************************************************)
(* Properties of ProcessedIndentRulesSupport (Spec).                       *)
(***************************************************************************)
FacadeOperations == {"shouldIncrease", "shouldDecrease", "shouldIgnore", "shouldIndentNextLine"}

\* C8: each facade operation asks the rule evaluator once, the predicate of
\* its own name, with the processed line of its line number and replacement
\* indentation, and returns the evaluator's answer.
C8_FacadeDelegatesTheProcessedLine ==
  op.name \in FacadeOperations =>
    /\ Len(evaluated) = 1
    /\ evaluated[1].predicate = op.name
    /\ evaluated[1].text = getProcessedLine(doc, op.lineNumber, op.newIndentation)
    /\ ret.value = evaluated[1].result

\* shouldDecrease on a line whose string token holds a bracket, with a
\* replacement indentation: the evaluator gets the text without the bracket
\* and its answer, true, is returned.
C8_Witness ==
  /\ op.name = "shouldDecrease"
  /\ CalledLine = <<Token(<<"(", " ">>, String, "paren"), Token(<<"a", ")">>, Other, "paren")>>
  /\ op.newIndentation = Defined(<<"\t">>)
  /\ evaluated[1].text = <<"\t", "a", ")">>
  /\ ret.value = TRUE

====
